---- MODULE Spec2Model ----
(***************************************************************************)
(* NeuralScalar (examples/neural_scalar.h): a scalar with a stored value,  *)
(* a memoized evaluation result, input connections to other NeuralScalars, *)
(* an embedded neural network, and two process-wide registries (names and  *)
(* blueprints).                                                            *)
(*                                                                         *)
(* Scalars are modelled as integers.  TinyNeuralNetwork lives in           *)
(* tiny_neural_network.h, which is not part of the sources at hand: a      *)
(* network is modelled by its layer widths and a weights tag, and compute  *)
(* by a deterministic position-weighted sum of its inputs.                 *)
(***************************************************************************)
EXTENDS Integers, Sequences, FiniteSets, TLC

(* ---------------------------- bounds ----------------------------------- *)
NumNodes == 3          \* NeuralScalar objects alive in the process
MaxInputs == 2         \* longest inputs_ vector
MaxValue == 2          \* stored values stay within 0..MaxValue
MaxWeight == 1         \* weight tags drawn by initialize()
MaxSteps == 1          \* free client calls after the construction of a scene

Nodes == 1..NumNodes
NULL == 0                               \* nullptr
NoName == ""                            \* empty name_: no sharing
Names == {"x", "y"}
Values == 0..MaxValue
Weights == 1..MaxWeight
NoBuf == <<-1>>                         \* function-local static not yet constructed
Crash == -1                             \* an out-of-bounds access ends the process
Garbage == {0, 1}                       \* what an out-of-bounds read may yield instead

(* ---------------------- TinyNeuralNetwork ------------------------------ *)
\* layers[1] is the input layer; a default network has the one layer <<0>>.
DefaultNet == [layers |-> <<0>>, w |-> 0]
input_dim(net) == net.layers[1]
output_dim(net) == net.layers[Len(net.layers)]
num_layers(net) == Len(net.layers)
set_input_dim(net, d) == [net EXCEPT !.layers[1] = d]
add_linear_layer(net, units) == [net EXCEPT !.layers = Append(@, units)]
initialize(net, w) == [net EXCEPT !.w = w]
RECURSIVE WeightedSum(_, _, _)
WeightedSum(net, in, i) ==
  IF i = 0 THEN 0
  ELSE (net.w + i - 1) * in[i] + WeightedSum(net, in, i - 1)

\* compute(inputs, outputs): writes output_dim() values from the first
\* input_dim() entries; with a single (input) layer the output is the input.
ComputeOut(net, in, prev) ==
  IF output_dim(net) = 0 THEN prev
  ELSE IF num_layers(net) = 1 THEN in[1]
  ELSE WeightedSum(net, in, input_dim(net))

(* ------------------------------ state ---------------------------------- *)
VARIABLES
  nodes,            \* node -> [value_, cache_, is_dirty_, inputs_, net_, name_, is_residual]
  named_scalars_,   \* static map name -> node (NULL: no entry)
  blueprints_,      \* static map name -> blueprint (NoBlueprint: no entry)
  inputs_buf,       \* the static vector `inputs` of evaluate_network_
  output_buf,       \* the static vector `output` of evaluate_network_ (entry 0)
  halted,           \* the process has terminated (assert, crash, stack exhaustion)
  last,             \* the last client operation: the call, the state before it, its result
  assigned,         \* history: name -> the node of the latest assign(name) that returned
  made,             \* the object the latest arithmetic operator returned, and its operands
  script,           \* the client's calls still to come before it acts freely
  steps             \* free client calls still to come after the script

vars == <<nodes, named_scalars_, blueprints_, inputs_buf, output_buf, halted, last,
          assigned, made, script, steps>>

NoBlueprint == [input_names |-> <<>>, net |-> DefaultNet, present |-> FALSE]

\* NeuralScalar(const Scalar& value); NeuralScalar() is NewNode(0)
NewNode(v) ==
  [value_ |-> v, cache_ |-> 0, is_dirty_ |-> TRUE, inputs_ |-> <<>>,
   net_ |-> DefaultNet, name_ |-> NoName, is_residual |-> TRUE]

\* NeuralScalar(inputs, spec): inputs_(inputs), net_(spec)
NewNodeSpec(inputs, net) == [NewNode(0) EXCEPT !.inputs_ = inputs, !.net_ = net]

\* NeuralScalar(inputs, use_input_bias): net_(inputs.size(), use_input_bias)
NewNodeInputs(inputs) == NewNodeSpec(inputs, [layers |-> <<Len(inputs)>>, w |-> 0])

\* a client call: operation, receiver, node or scalar argument, drawn weights,
\* name, blueprint input names, blueprint network layers
Call(op, n, arg, w, name, ins, layers) ==
  [op |-> op, n |-> n, arg |-> arg, w |-> w, name |-> name, ins |-> ins, layers |-> layers]
Evaluating(n) == Call("evaluate", n, NULL, 0, NoName, <<>>, <<>>)
AssigningNode(n, m) == Call("assign_node", n, m, 0, NoName, <<>>, <<>>)
AssigningScalar(n, v) == Call("assign_scalar", n, v, 0, NoName, <<>>, <<>>)
AssigningDouble(n, v) == Call("assign_double", n, v, 0, NoName, <<>>, <<>>)
Compounding(n, op, m) == Call(op, n, m, 0, NoName, <<>>, <<>>)
Connecting(n, m, w) == Call("connect", n, m, w, NoName, <<>>, <<>>)
SettingResidual(n, b) == Call("set_residual", n, IF b THEN 1 ELSE 0, 0, NoName, <<>>, <<>>)
Retrieving(name) == Call("retrieve", NULL, NULL, 0, name, <<>>, <<>>)
Assigning(n, name) == Call("assign", n, NULL, 0, name, <<>>, <<>>)
AddingBlueprint(name, ins, net) == Call("add_blueprint", NULL, NULL, net.w, name, ins, net.layers)
Operating(op, a, b) == Call(op, a, b, 0, NoName, <<>>, <<>>)
Negating(a) == Call("neg", a, NULL, 0, NoName, <<>>, <<>>)

(* ---------------------------- evaluation ------------------------------- *)
Zeros(k) == [i \in 1..k |-> 0]

RECURSIVE evaluate(_, _, _)
RECURSIVE evaluate_network_(_, _, _, _)
RECURSIVE gather_inputs(_, _, _, _)

\* an evaluate() that trusts the cache of a node without inputs only, as if
\* a change of an input reached the nodes that list it
cache_valid_without_inputs(nd) == ~nd.is_dirty_ /\ nd.inputs_ = <<>>

\* an evaluate() that always returns the cache
cache_valid_always(nd) == TRUE

\* an evaluate() that never trusts the cache
cache_valid_never(nd) == FALSE

\* if (!is_dirty_) return cache_;
cache_valid(nd) == ~nd.is_dirty_

\* an evaluate() without the shortcut for nodes without inputs
no_inputs_never(nd) == FALSE

\* if (inputs_.empty())
no_inputs(nd) == nd.inputs_ = <<>>

\* a combine that ignores is_residual
combine_always_residual(nd, net_output) == nd.value_ + net_output

\* a combine that always replaces the value
combine_never_residual(nd, net_output) == net_output

\* is_residual ? value_ + net_output : net_output
combine(nd, net_output) ==
  IF nd.is_residual THEN nd.value_ + net_output ELSE net_output

\* an evaluate() that stores nothing
memoize_nothing(nd, c) == nd

\* cache_ = ...; is_dirty_ = false;
memoize(nd, c) == [nd EXCEPT !.cache_ = c, !.is_dirty_ = FALSE]

\* an evaluate_network_ that never looks at the registry
aliased_never(nd, n, named) == FALSE

\* !name_.empty() && named_scalars_[name_] != this
aliased(nd, n, named) == nd.name_ # NoName /\ named[nd.name_] # n

\* es = [nodes, named, buf, out, calls, status, stack]; result = [es, ret].
\* ub: what an out-of-bounds access of the static vector does in this run:
\* Crash, or a value g: the write lands outside the vector and a read yields g.
\* stack: the nodes whose evaluate() has passed the dirty test and not yet
\* returned.  Such a node is still dirty, so a nested evaluate() of it takes
\* the same path again and the recursion never ends: status "overflow".
evaluate(es, n, ub) ==
  LET nd == es.nodes[n] IN
  IF es.status # "ok" THEN [es |-> es, ret |-> 0]
  ELSE IF cache_valid(nd) THEN [es |-> es, ret |-> nd.cache_]
  ELSE IF no_inputs(nd) THEN
    [es |-> [es EXCEPT !.nodes[n] = memoize(nd, nd.value_)], ret |-> nd.value_]
  ELSE IF n \in es.stack THEN [es |-> [es EXCEPT !.status = "overflow"], ret |-> 0]
  ELSE
    LET r == evaluate_network_([es EXCEPT !.stack = @ \cup {n}], n, ub, {n})
        c == combine(nd, r.ret)
        nd1 == memoize(r.es.nodes[n], c)
    IN IF r.es.status # "ok" THEN r
       ELSE [es |-> [r.es EXCEPT !.nodes[n] = nd1, !.stack = es.stack],
             ret |-> nd1.cache_]

\* the loop of evaluate_network_ from index i on
gather_inputs(es, n, i, ub) ==
  LET ins == es.nodes[n].inputs_ IN
  IF es.status # "ok" \/ i > Len(ins) THEN es
  ELSE IF ins[i] = NULL THEN gather_inputs(es, n, i + 1, ub)
  ELSE
    LET r == evaluate(es, ins[i], ub)
        es1 == r.es
        es2 == IF es1.status # "ok" THEN es1
               ELSE IF i <= Len(es1.buf) THEN [es1 EXCEPT !.buf[i] = r.ret]
               ELSE IF ub = Crash THEN [es1 EXCEPT !.status = "ub"]
               ELSE es1
    IN gather_inputs(es2, n, i + 1, ub)

\* seen: the nodes of the alias chain so far (a chain that returns to one of
\* them never ends)
evaluate_network_(es, n, ub, seen) ==
  LET nd == es.nodes[n] IN
  IF es.status # "ok" THEN [es |-> es, ret |-> 0]
  ELSE IF aliased(nd, n, es.named) THEN
    IF es.named[nd.name_] \in seen
    THEN [es |-> [es EXCEPT !.status = "overflow"], ret |-> 0]
    ELSE evaluate_network_(es, es.named[nd.name_], ub, seen \cup {es.named[nd.name_]})
  ELSE
    LET es0 == IF es.buf = NoBuf THEN [es EXCEPT !.buf = Zeros(Len(nd.inputs_))] ELSE es
        es1 == gather_inputs(es0, n, 1, ub)
        need == IF output_dim(nd.net_) = 0 THEN 0
                ELSE IF num_layers(nd.net_) = 1 THEN 1 ELSE input_dim(nd.net_)
        short == Len(es1.buf) < need
        in == IF short THEN es1.buf \o [i \in 1..(need - Len(es1.buf)) |-> ub] ELSE es1.buf
        o == ComputeOut(nd.net_, in, es1.out)
    IN IF es1.status # "ok" THEN [es |-> es1, ret |-> 0]
       ELSE IF short /\ ub = Crash THEN [es |-> [es1 EXCEPT !.status = "ub"], ret |-> 0]
       ELSE [es |-> [es1 EXCEPT !.out = o,
                                !.calls = Append(@, [node |-> n, net |-> nd.net_,
                                                     input |-> es1.buf, output |-> o])],
             ret |-> o]

EvalState == [nodes |-> nodes, named |-> named_scalars_, buf |-> inputs_buf,
              out |-> output_buf, calls |-> <<>>, status |-> "ok", stack |-> {}]

\* n.evaluate() called by the client on the current state, all outcomes
EvalOutcomes(es, n) ==
  LET r == evaluate(es, n, Crash) IN
  IF r.es.status = "ub" THEN {r} \cup {evaluate(es, n, g) : g \in Garbage} ELSE {r}

(* ------------------------------ actions -------------------------------- *)
\* construction: three objects
Literals == <<NewNode(1), NewNode(2), NewNode(0)>>
\* n2 = NeuralScalar({&n1}); n3 = NeuralScalar({nullptr, &n2}, spec)
Graph ==
  <<NewNode(1), NewNodeInputs(<<1>>), NewNodeSpec(<<NULL, 2>>, [layers |-> <<2, 1>>, w |-> 1])>>
\* n3 = NeuralScalar({}, spec) with a spec whose last layer has no units
Unwired == <<NewNode(1), NewNode(2), NewNodeSpec(<<>>, [layers |-> <<0, 0>>, w |-> 1])>>

\* the objects built from inputs start with value zero: n2 = 2; n3 = 1;
GraphValues == <<AssigningScalar(2, 2), AssigningScalar(3, 1)>>
BlueprintY == AddingBlueprint("y", <<"x">>, [layers |-> <<1, 1>>, w |-> 1])

\* what the client does first: the objects it constructs and its first
\* calls.  After the construction of a scene it makes MaxSteps free calls,
\* after a longer script one.
Scene(scene, calls) == [scene |-> scene, script |-> calls, free |-> MaxSteps]
Scenario(scene, calls) == [scene |-> scene, script |-> calls, free |-> 1]
Setups ==
  { Scene(Literals, <<>>),
    Scene(Graph, GraphValues),
    Scene(Unwired, <<Evaluating(3)>>),
    Scenario(Graph, GraphValues \o <<SettingResidual(2, FALSE)>>),
    Scenario(Graph, GraphValues \o <<Evaluating(3)>>),
    Scenario(Graph, GraphValues \o <<Evaluating(3), Compounding(3, "+=", 1)>>),
    Scenario(Graph, GraphValues \o <<Evaluating(3), Connecting(2, NULL, 1)>>),
    Scenario(Graph, GraphValues \o <<Assigning(3, "x"), Assigning(2, "x")>>),
    Scenario(Graph, GraphValues \o <<Assigning(3, "x"), Assigning(2, "x"), Evaluating(3)>>),
    Scenario(Graph, GraphValues \o <<Assigning(3, "x"), Evaluating(3), Assigning(2, "x")>>),
    Scenario(Graph, GraphValues \o <<Assigning(3, "x"), Evaluating(3), Assigning(2, "x"),
                                     AssigningScalar(3, 2)>>),
    Scenario(Literals, <<Assigning(1, "x"), SettingResidual(1, FALSE), Evaluating(1)>>),
    Scenario(Literals, <<BlueprintY, Assigning(1, "x"), Assigning(2, "y"), Assigning(3, "y")>>),
    Scenario(Literals, <<BlueprintY>>),
    Scenario(Graph, GraphValues \o <<Operating("-", 3, 2)>>),
    Scenario(Literals, <<Connecting(1, 2, 1), Connecting(2, 1, 1)>>),
    Scenario(Unwired, <<Evaluating(3), Connecting(3, 3, 1)>>),
    Scenario(Graph, GraphValues \o <<Assigning(2, "x"), Assigning(3, "x")>>),
    Scenario(Literals, <<Assigning(1, "x"), Evaluating(2), BlueprintY>>),
    Scenario(Literals, <<Assigning(1, "x"), Assigning(2, "x"), Assigning(2, "y")>>) }

\* no arithmetic operator has returned yet
NoObject == [op |-> "none", lhs |-> NULL, rhs |-> NULL, l |-> 0, r |-> 0, node |-> NewNode(0)]

NoCall == [call |-> Call("init", NULL, NULL, 0, NoName, <<>>, <<>>), pre |-> NewNode(0),
           ret |-> 0, calls |-> <<>>, status |-> "ok"]

Init ==
  /\ \E su \in Setups :
       /\ nodes = [n \in Nodes |-> IF n <= Len(su.scene) THEN su.scene[n] ELSE NewNode(0)]
       /\ script = su.script
       /\ steps = su.free
  /\ named_scalars_ = [s \in Names |-> NULL]
  /\ blueprints_ = [s \in Names |-> NoBlueprint]
  /\ inputs_buf = NoBuf
  /\ output_buf = 0
  /\ halted = FALSE
  /\ last = [call |-> NoCall.call, pre |-> NoCall.pre, ret |-> 0, calls |-> <<>>,
             status |-> "ok", prev |-> NoCall,
             was |-> [nodes |-> nodes, named |-> named_scalars_, bps |-> blueprints_]]
  /\ assigned = [s \in Names |-> NULL]
  /\ made = NoObject

\* the client makes call c now: the next call of its script, or any call
\* once the script is done
Allowed(c) ==
  /\ ~halted
  /\ IF script # <<>> THEN c = Head(script) ELSE steps > 0
  /\ script' = IF script # <<>> THEN Tail(script) ELSE script
  /\ steps' = IF script # <<>> THEN steps ELSE steps - 1

Done(c, n, ret, calls, status) ==
  last' = [call |-> c, pre |-> IF n = NULL THEN NewNode(0) ELSE nodes[n],
           ret |-> ret, calls |-> calls, status |-> status,
           prev |-> [call |-> last.call, pre |-> last.pre, ret |-> last.ret,
                     calls |-> last.calls, status |-> last.status],
           was |-> [nodes |-> nodes, named |-> named_scalars_, bps |-> blueprints_]]

\* the part of an operation's effect that an evaluation outcome r decides
Evaluated(r) ==
  /\ inputs_buf' = r.es.buf
  /\ output_buf' = r.es.out
  /\ halted' = (r.es.status # "ok")

Evaluate(n) ==
  /\ Allowed(Evaluating(n))
  /\ \E r \in EvalOutcomes(EvalState, n) :
       /\ Evaluated(r)
       /\ nodes' = r.es.nodes
       /\ Done(Evaluating(n), n, r.ret, r.es.calls, r.es.status)
  /\ UNCHANGED <<named_scalars_, blueprints_, assigned, made>>

\* an assignment that overwrites the object with a plain one holding the value
assign_value_memberwise(nd, rhs) == NewNode(rhs)

\* an assignment that forgets is_dirty_ = true
assign_value_keeps_cache(nd, rhs) == [nd EXCEPT !.value_ = rhs]

\* value_ = rhs; is_dirty_ = true;   (rhs: rhs.evaluate(), a Scalar, or Scalar(double))
assign_value(nd, rhs) == [nd EXCEPT !.value_ = rhs, !.is_dirty_ = TRUE]

\* operator=(const NeuralScalar& rhs)
AssignNode(n, m) ==
  /\ Allowed(AssigningNode(n, m))
  /\ \E r \in EvalOutcomes(EvalState, m) :
       /\ Evaluated(r)
       /\ r.es.status = "ok" => r.ret \in Values
       /\ nodes' = IF r.es.status = "ok"
                   THEN [r.es.nodes EXCEPT ![n] = assign_value(@, r.ret)]
                   ELSE r.es.nodes
       /\ Done(AssigningNode(n, m), n, r.ret, r.es.calls, r.es.status)
  /\ UNCHANGED <<named_scalars_, blueprints_, assigned, made>>

\* operator=(const Scalar& rhs)
AssignScalar(n, v) ==
  /\ Allowed(AssigningScalar(n, v))
  /\ nodes' = [nodes EXCEPT ![n] = assign_value(@, v)]
  /\ Done(AssigningScalar(n, v), n, 0, <<>>, "ok")
  /\ UNCHANGED <<named_scalars_, blueprints_, inputs_buf, output_buf, halted, assigned, made>>

\* Scalar(rhs) for a double rhs: the scalars of the model are the integers
ScalarOfDouble(d) == d

\* operator=(double rhs)
AssignDouble(n, d) ==
  /\ Allowed(AssigningDouble(n, d))
  /\ nodes' = [nodes EXCEPT ![n] = assign_value(@, ScalarOfDouble(d))]
  /\ Done(AssigningDouble(n, d), n, 0, <<>>, "ok")
  /\ UNCHANGED <<named_scalars_, blueprints_, inputs_buf, output_buf, halted, assigned, made>>

CompoundOps == {"+=", "-=", "*=", "/="}
\* integer scalars: a quotient is modelled where it is exact
Defined(a, op, b) == op = "/=" => (b # 0 /\ a % b = 0)
Apply(a, op, b) ==
  CASE op = "+=" -> a + b
    [] op = "-=" -> a - b
    [] op = "*=" -> a * b
    [] op = "/=" -> a \div b

\* a compound assignment that works on the cached evaluation result
compound_assign_on_cache(nd, op, rhs) ==
  [nd EXCEPT !.value_ = Apply(nd.cache_, op, rhs), !.is_dirty_ = TRUE]

\* value_ op= rhs.evaluate(); is_dirty_ = true;
compound_assign(nd, op, rhs) ==
  [nd EXCEPT !.value_ = Apply(@, op, rhs), !.is_dirty_ = TRUE]

\* operator+=, operator-=, operator*=, operator/=
Compound(n, op, m) ==
  /\ Allowed(Compounding(n, op, m))
  /\ \E r \in EvalOutcomes(EvalState, m) :
       /\ Evaluated(r)
       /\ r.es.status = "ok" =>
            /\ Defined(r.es.nodes[n].value_, op, r.ret)
            /\ Apply(r.es.nodes[n].value_, op, r.ret) \in Values
       /\ nodes' = IF r.es.status = "ok"
                   THEN [r.es.nodes EXCEPT ![n] = compound_assign(@, op, r.ret)]
                   ELSE r.es.nodes
       /\ Done(Compounding(n, op, m), n, r.ret, r.es.calls, r.es.status)
  /\ UNCHANGED <<named_scalars_, blueprints_, assigned, made>>

\* a set_dirty without the output_dim test
set_dirty_unguarded(nd) == [nd EXCEPT !.is_dirty_ = TRUE]

\* set_dirty()
set_dirty(nd) == IF output_dim(nd.net_) # 0 THEN [nd EXCEPT !.is_dirty_ = TRUE] ELSE nd

\* connect(scalar, activation); w: the weights initialize() draws
connect(nd, m, w) ==
  LET n1 == [nd EXCEPT !.inputs_ = Append(@, m),
                       !.net_ = set_input_dim(@, input_dim(@) + 1)]
      n2 == IF num_layers(n1.net_) = 1
            THEN [n1 EXCEPT !.net_ = add_linear_layer(@, 1)] ELSE n1
      n3 == [n2 EXCEPT !.net_ = initialize(@, w)]
  IN set_dirty(n3)

Connect(n, m, w) ==
  /\ Allowed(Connecting(n, m, w))
  /\ Len(nodes[n].inputs_) < MaxInputs
  /\ nodes' = [nodes EXCEPT ![n] = connect(@, m, w)]
  /\ Done(Connecting(n, m, w), n, 0, <<>>, "ok")
  /\ UNCHANGED <<named_scalars_, blueprints_, inputs_buf, output_buf, halted, assigned, made>>

\* the public field is_residual
SetResidual(n, b) ==
  /\ Allowed(SettingResidual(n, b))
  /\ nodes[n].is_residual # b
  /\ nodes' = [nodes EXCEPT ![n].is_residual = b]
  /\ Done(SettingResidual(n, b), n, 0, <<>>, "ok")
  /\ UNCHANGED <<named_scalars_, blueprints_, inputs_buf, output_buf, halted, assigned, made>>

\* a retrieve that answers a name without an entry with the first object
retrieve_never_null(named, name) == IF named[name] = NULL THEN 1 ELSE named[name]

\* static retrieve(name)
retrieve(named, name) == named[name]

Retrieve(name) ==
  /\ Allowed(Retrieving(name))
  /\ Done(Retrieving(name), NULL, retrieve(named_scalars_, name), <<>>, "ok")
  /\ UNCHANGED <<nodes, named_scalars_, blueprints_, inputs_buf, output_buf, halted, assigned, made>>

\* a blueprint loop that takes an unregistered input name for a null input
RECURSIVE resolve_inputs_lenient(_, _, _, _)
resolve_inputs_lenient(named, input_names, i, inputs) ==
  IF i > Len(input_names) THEN [inputs |-> inputs, ok |-> TRUE]
  ELSE resolve_inputs_lenient(named, input_names, i + 1,
                              Append(inputs, retrieve(named, input_names[i])))

\* the blueprint loop of assign from input name i on: [inputs, ok]
RECURSIVE resolve_inputs(_, _, _, _)
resolve_inputs(named, input_names, i, inputs) ==
  IF i > Len(input_names) THEN [inputs |-> inputs, ok |-> TRUE]
  ELSE LET input == retrieve(named, input_names[i]) IN
       IF input = NULL THEN [inputs |-> inputs, ok |-> FALSE]
       ELSE resolve_inputs(named, input_names, i + 1, Append(inputs, input))

\* an assign that names the node and leaves the registry alone
assign_unregistered(nd, n, name, named, bps) ==
  LET bp == bps[name]
      rs == resolve_inputs(named, bp.input_names, 1, nd.inputs_)
      n1 == [nd EXCEPT !.name_ = name]
  IN IF ~bp.present THEN [node |-> n1, named |-> named, ok |-> TRUE]
     ELSE IF rs.ok THEN
       [node |-> [n1 EXCEPT !.inputs_ = rs.inputs, !.net_ = bp.net], named |-> named, ok |-> TRUE]
     ELSE [node |-> [n1 EXCEPT !.inputs_ = rs.inputs], named |-> named, ok |-> FALSE]

\* an assign that marks the node dirty when it applies a blueprint
assign_invalidates(nd, n, name, named, bps) ==
  LET bp == bps[name]
      rs == resolve_inputs(named, bp.input_names, 1, nd.inputs_)
      n1 == [nd EXCEPT !.name_ = name]
  IN IF ~bp.present THEN
       [node |-> n1, named |-> [named EXCEPT ![name] = n], ok |-> TRUE]
     ELSE IF rs.ok THEN
       [node |-> [n1 EXCEPT !.inputs_ = rs.inputs, !.net_ = bp.net, !.is_dirty_ = TRUE],
        named |-> [named EXCEPT ![name] = n], ok |-> TRUE]
     ELSE [node |-> [n1 EXCEPT !.inputs_ = rs.inputs], named |-> named, ok |-> FALSE]

\* an assign that registers the node only under a name nobody holds yet
assign_first_wins(nd, n, name, named, bps) ==
  LET bp == bps[name]
      rs == resolve_inputs(named, bp.input_names, 1, nd.inputs_)
      n1 == [nd EXCEPT !.name_ = name]
      reg == IF named[name] = NULL THEN [named EXCEPT ![name] = n] ELSE named
  IN IF ~bp.present THEN [node |-> n1, named |-> reg, ok |-> TRUE]
     ELSE IF rs.ok THEN
       [node |-> [n1 EXCEPT !.inputs_ = rs.inputs, !.net_ = bp.net], named |-> reg, ok |-> TRUE]
     ELSE [node |-> [n1 EXCEPT !.inputs_ = rs.inputs], named |-> named, ok |-> FALSE]

\* assign(name) on node nd (object n): [node, named, ok]
assign(nd, n, name, named, bps) ==
  LET bp == bps[name]
      rs == resolve_inputs(named, bp.input_names, 1, nd.inputs_)
      n1 == [nd EXCEPT !.name_ = name]
  IN IF ~bp.present THEN
       [node |-> n1, named |-> [named EXCEPT ![name] = n], ok |-> TRUE]
     ELSE IF rs.ok THEN
       [node |-> [n1 EXCEPT !.inputs_ = rs.inputs, !.net_ = bp.net],
        named |-> [named EXCEPT ![name] = n], ok |-> TRUE]
     ELSE \* assert(0)
       [node |-> [n1 EXCEPT !.inputs_ = rs.inputs], named |-> named, ok |-> FALSE]

Assign(n, name) ==
  LET a == assign(nodes[n], n, name, named_scalars_, blueprints_) IN
  /\ Allowed(Assigning(n, name))
  /\ Len(a.node.inputs_) <= MaxInputs
  /\ nodes' = [nodes EXCEPT ![n] = a.node]
  /\ named_scalars_' = a.named
  /\ halted' = ~a.ok
  /\ assigned' = IF a.ok THEN [assigned EXCEPT ![name] = n] ELSE assigned
  /\ Done(Assigning(n, name), n, 0, <<>>, IF a.ok THEN "ok" ELSE "assert")
  /\ UNCHANGED <<blueprints_, inputs_buf, output_buf, made>>

\* the input lists and networks a client hands to add_blueprint
BlueprintInputs == {<<>>} \cup {<<s>> : s \in Names}
BlueprintNets(k) == {[layers |-> <<k, u>>, w |-> w] : u \in {0, 1}, w \in Weights}

\* static add_blueprint(scalar_name, input_names, net)
add_blueprint(bps, name, input_names, net) ==
  [bps EXCEPT ![name] = [input_names |-> input_names, net |-> net, present |-> TRUE]]

AddBlueprint(name, input_names, net) ==
  /\ Allowed(AddingBlueprint(name, input_names, net))
  /\ blueprints_' = add_blueprint(blueprints_, name, input_names, net)
  /\ Done(AddingBlueprint(name, input_names, net), NULL, 0, <<>>, "ok")
  /\ UNCHANGED <<nodes, named_scalars_, inputs_buf, output_buf, halted, assigned, made>>

BinaryOps == {"+", "-", "*", "/"}
\* integer scalars: a quotient is modelled where it is exact
DefinedBinary(a, op, b) == op = "/" => (b # 0 /\ a % b = 0)
ApplyBinary(a, op, b) ==
  CASE op = "+" -> a + b
    [] op = "-" -> a - b
    [] op = "*" -> a * b
    [] op = "/" -> a \div b

\* an operator that returns an object with its operands as inputs
binary_result_wired(op, lhs, rhs, l, r) == NewNodeInputs(<<lhs, rhs>>)

\* return NeuralScalar(lhs.evaluate() op rhs.evaluate()); l, r: what the two
\* evaluate() calls returned
binary_result(op, lhs, rhs, l, r) == NewNode(ApplyBinary(l, op, r))

\* return NeuralScalar(-rhs.evaluate())
negation_result(r) == NewNode(0 - r)

\* operator+, operator-, operator*, operator/ on two NeuralScalars.  The
\* order of the two evaluate() calls is the compiler's choice.
Binary(op, a, b) ==
  /\ Allowed(Operating(op, a, b))
  /\ \E first \in {a, b} :
       LET second == IF first = a THEN b ELSE a IN
       \E r1 \in EvalOutcomes(EvalState, first) :
         \E r2 \in EvalOutcomes(r1.es, second) :
           LET l == IF first = a THEN r1.ret ELSE r2.ret
               r == IF first = a THEN r2.ret ELSE r1.ret
               ok == r2.es.status = "ok"
               new == binary_result(op, a, b, l, r)
           IN /\ ok => DefinedBinary(l, op, r)
              /\ Evaluated(r2)
              /\ nodes' = r2.es.nodes
              /\ made' = IF ok THEN [op |-> op, lhs |-> a, rhs |-> b, l |-> l, r |-> r,
                                      node |-> new]
                         ELSE made
              /\ Done(Operating(op, a, b), a, IF ok THEN new.value_ ELSE 0,
                      r2.es.calls, r2.es.status)
  /\ UNCHANGED <<named_scalars_, blueprints_, assigned>>

\* unary operator-
Negate(a) ==
  /\ Allowed(Negating(a))
  /\ \E r \in EvalOutcomes(EvalState, a) :
       LET ok == r.es.status = "ok"
           new == negation_result(r.ret)
       IN /\ Evaluated(r)
          /\ nodes' = r.es.nodes
          /\ made' = IF ok THEN [op |-> "neg", lhs |-> NULL, rhs |-> a, l |-> 0, r |-> r.ret,
                                  node |-> new]
                     ELSE made
          /\ Done(Negating(a), a, IF ok THEN new.value_ ELSE 0, r.es.calls, r.es.status)
  /\ UNCHANGED <<named_scalars_, blueprints_, assigned>>

Next ==
  \/ \E n \in Nodes : Evaluate(n)
  \/ \E n, m \in Nodes : AssignNode(n, m)
  \/ \E n \in Nodes, v \in Values : AssignScalar(n, v)
  \/ \E n \in Nodes, d \in Values : AssignDouble(n, d)
  \/ \E n, m \in Nodes, op \in CompoundOps : Compound(n, op, m)
  \/ \E n \in Nodes, m \in Nodes \cup {NULL}, w \in Weights : Connect(n, m, w)
  \/ \E n \in Nodes, b \in BOOLEAN : SetResidual(n, b)
  \/ \E name \in Names : Retrieve(name)
  \/ \E n \in Nodes, name \in Names : Assign(n, name)
  \/ \E name \in Names, ins \in BlueprintInputs :
       \E net \in BlueprintNets(Len(ins)) : AddBlueprint(name, ins, net)
  \/ \E a, b \in Nodes, op \in BinaryOps : Binary(op, a, b)
  \/ \E a \in Nodes : Negate(a)

Spec == Init /\ [][Next]_vars

(* ------------------------------ claims --------------------------------- *)
\* the receiver of the last call, and the last call's evaluate() returned
Receiver == last.call.n
Returned == last.status = "ok"
EvaluateReturned == last.call.op = "evaluate" /\ Returned
\* the compute invocation of the last call that was made last: the one of
\* the outermost evaluate_network_, whose output is net_output
NetOutput == last.calls[Len(last.calls)]

\* C1: evaluate() of a Dirty node with inputs that is not aliased invokes its
\* own network and returns value + network_output[0] if is_residual, else
\* network_output[0]; the result is stored in cache and the node is Clean.
C1_ResidualComposition ==
  (/\ EvaluateReturned
   /\ last.pre.is_dirty_
   /\ last.pre.inputs_ # <<>>
   /\ ~aliased(last.pre, Receiver, named_scalars_))
  => /\ last.calls # <<>>
     /\ NetOutput.node = Receiver
     /\ last.ret = (IF last.pre.is_residual THEN last.pre.value_ + NetOutput.output
                    ELSE NetOutput.output)
     /\ nodes[Receiver].cache_ = last.ret
     /\ ~nodes[Receiver].is_dirty_

\* a non-residual node with a non-zero value returned its network's non-zero
\* output
C1_Witness ==
  /\ EvaluateReturned
  /\ last.pre.is_dirty_
  /\ last.pre.inputs_ # <<>>
  /\ ~aliased(last.pre, Receiver, named_scalars_)
  /\ ~last.pre.is_residual
  /\ last.pre.value_ > 0
  /\ NetOutput.output > 0
  /\ last.ret = NetOutput.output
  /\ nodes[Receiver].cache_ = last.ret

\* C2: the input vector of every network.compute has one entry per element
\* of the computing node's inputs, the i-th being the evaluation result of
\* inputs[i] (which that node then holds as its cache), or zero if it is null.
C2_InputVectorMatchesInputs ==
  EvaluateReturned =>
    \A k \in 1..Len(last.calls) :
      LET c == last.calls[k]
          ins == nodes[c.node].inputs_
      IN /\ Len(c.input) = Len(ins)
         /\ \A i \in 1..Len(ins) :
              c.input[i] = (IF ins[i] = NULL THEN 0 ELSE nodes[ins[i]].cache_)

\* what the next evaluate() of node n would do in this state
NextEvaluate(n) == evaluate(EvalState, n, Crash)

\* C3: evaluate() of a Clean node returns the cache, invokes no network,
\* changes no node, no registry and no buffer; and an evaluate() that follows
\* an evaluate() of the same node returns the same result.
C3_CleanEvaluateIsPure ==
  [][\A n \in Nodes :
       /\ (last'.call = Evaluating(n) /\ ~nodes[n].is_dirty_)
          => /\ last'.status = "ok"
             /\ last'.ret = nodes[n].cache_
             /\ last'.calls = <<>>
             /\ UNCHANGED <<nodes, named_scalars_, blueprints_, inputs_buf, output_buf,
                            halted, assigned>>
       /\ (last.call = Evaluating(n) /\ last.status = "ok" /\ last'.call = Evaluating(n))
          => /\ last'.status = "ok"
             /\ last'.ret = last.ret]_vars

\* a node with inputs was evaluated twice in a row: the second call found it
\* Clean and returned the first call's result without a compute
C3_Witness ==
  /\ EvaluateReturned
  /\ last.prev.call = last.call
  /\ last.prev.calls # <<>>
  /\ ~last.pre.is_dirty_
  /\ last.pre.inputs_ # <<>>
  /\ last.calls = <<>>
  /\ last.ret = last.prev.ret

\* C4: in every reachable state a node without inputs evaluates to its stored
\* value, without a compute, whatever its dirty flag, name and is_residual;
\* and so did the evaluate() that was called last.
C4_NoInputIdentity ==
  /\ \A n \in Nodes :
       nodes[n].inputs_ = <<>> =>
         /\ NextEvaluate(n).es.status = "ok"
         /\ NextEvaluate(n).ret = nodes[n].value_
         /\ NextEvaluate(n).es.calls = <<>>
  /\ (last.call.op = "evaluate" /\ last.pre.inputs_ = <<>>)
     => (Returned /\ last.ret = last.pre.value_ /\ last.calls = <<>>)

\* a Clean, named, non-residual node without inputs returned its value
C4_Witness ==
  /\ EvaluateReturned
  /\ last.pre.inputs_ = <<>>
  /\ ~last.pre.is_dirty_
  /\ last.pre.name_ # NoName
  /\ ~last.pre.is_residual
  /\ last.pre.value_ > 0
  /\ last.ret = last.pre.value_

ValueAssignments == {"assign_node", "assign_scalar", "assign_double"} \cup CompoundOps

\* C5: an assignment or compound assignment that returns leaves its receiver
\* Dirty (also when it was Clean), and the next evaluate() of the receiver
\* recomputes: it returns the new value if the node has no inputs, and else
\* invokes a network and combines its output with the new value.
C5_AssignmentInvalidates ==
  (last.call.op \in ValueAssignments /\ Returned)
  => LET nd == nodes[Receiver]
         r == NextEvaluate(Receiver)
     IN /\ nd.is_dirty_
        /\ r.es.status = "ok" =>
             IF nd.inputs_ = <<>> THEN r.ret = nd.value_
             ELSE /\ r.es.calls # <<>>
                  /\ r.ret = (IF nd.is_residual
                              THEN nd.value_ + r.es.calls[Len(r.es.calls)].output
                              ELSE r.es.calls[Len(r.es.calls)].output)

\* a Clean node with inputs was assigned to by += and then evaluated: the
\* result is not the old cache but the new value plus the network output
C5_Witness ==
  /\ EvaluateReturned
  /\ last.prev.call.op = "+="
  /\ last.prev.call.n = Receiver
  /\ ~last.prev.pre.is_dirty_
  /\ last.pre.is_dirty_
  /\ last.pre.value_ # last.prev.pre.value_
  /\ last.calls # <<>>
  /\ last.ret # last.pre.cache_
  /\ last.ret = last.pre.value_ + NetOutput.output

ConnectedToClean == last.call.op = "connect" /\ ~last.pre.is_dirty_
Appended == nodes[Receiver].inputs_ = Append(last.pre.inputs_, last.call.arg)

\* C6 as claimed: connect on a Clean node appends the node to inputs and
\* always leaves the receiver Dirty, so that its next evaluate() invokes a
\* network.
C6_ConnectAlwaysInvalidates ==
  ConnectedToClean
  => /\ Appended
     /\ nodes[Receiver].is_dirty_
     /\ NextEvaluate(Receiver).es.status = "ok" => NextEvaluate(Receiver).es.calls # <<>>

\* C6 amended: connect on a Clean node appends the node to inputs and leaves
\* the receiver Dirty exactly if its network has a non-zero output dimension
\* after the call.  A receiver left Dirty invokes a network on its next
\* evaluate(), its own with the new input evaluated unless it is aliased; a
\* receiver left Clean returns its old cache.
C6_ConnectInvalidatesWiredNode ==
  ConnectedToClean
  => LET nd == nodes[Receiver]
         r == NextEvaluate(Receiver)
         m == last.call.arg
     IN /\ Appended
        /\ nd.is_dirty_ <=> output_dim(nd.net_) # 0
        /\ (nd.is_dirty_ /\ r.es.status = "ok")
           => /\ r.es.calls # <<>>
              /\ ~aliased(nd, Receiver, named_scalars_)
                 => /\ r.es.calls[Len(r.es.calls)].node = Receiver
                    /\ m # NULL => ~r.es.nodes[m].is_dirty_
        /\ ~nd.is_dirty_
           => /\ r.ret = last.pre.cache_
              /\ r.es.calls = <<>>

\* a Clean node that had an input and a network got a second input and is
\* Dirty
C6_Witness ==
  /\ ConnectedToClean
  /\ last.pre.inputs_ # <<>>
  /\ last.call.arg # NULL
  /\ last.call.arg # Receiver
  /\ Appended
  /\ nodes[Receiver].is_dirty_
  /\ NextEvaluate(Receiver).es.status = "ok"

\* the node that alias delegation ends at when it starts at n and follows
\* registry reg
RECURSIVE FollowNames(_, _, _)
FollowNames(reg, n, k) ==
  IF k = 0 \/ nodes[n].name_ = NoName THEN n
  ELSE IF reg[nodes[n].name_] = n THEN n
  ELSE FollowNames(reg, reg[nodes[n].name_], k - 1)

\* the last call was an evaluate() of a node whose name another node took
\* over by a later assign
EvaluatedTakenOver ==
  /\ EvaluateReturned
  /\ last.pre.name_ # NoName
  /\ assigned[last.pre.name_] # Receiver

\* C7 as claimed: once B has been assigned A's name, every evaluate() of A
\* returns what B.evaluate() returns.
C7_AlwaysReturnsNewHolder ==
  EvaluatedTakenOver => last.ret = NextEvaluate(assigned[last.pre.name_]).ret

\* C7 amended: once B has been assigned A's name, an evaluate() of A that
\* finds A Dirty with inputs has its network output computed by the node the
\* names lead to at that moment (B, or the holder of B's name), and combines
\* it with A's own value; a Clean A returns its cache and an A without inputs
\* its own value, both without a compute.
C7_FollowsRegistryWhenRecomputing ==
  EvaluatedTakenOver
  => IF ~last.pre.is_dirty_ THEN last.ret = last.pre.cache_ /\ last.calls = <<>>
     ELSE IF last.pre.inputs_ = <<>> THEN last.ret = last.pre.value_ /\ last.calls = <<>>
     ELSE /\ last.calls # <<>>
          /\ NetOutput.node = FollowNames(assigned, Receiver, NumNodes)
          /\ NetOutput.node # Receiver
          /\ last.ret = (IF last.pre.is_residual THEN last.pre.value_ + NetOutput.output
                         ELSE NetOutput.output)

\* A was Clean when B took its name, was made Dirty by an assignment and
\* then evaluated: B's network computed the output
C7_Witness ==
  /\ EvaluatedTakenOver
  /\ last.pre.is_dirty_
  /\ last.pre.inputs_ # <<>>
  /\ last.prev.call.op \in ValueAssignments
  /\ last.prev.call.n = Receiver
  /\ ~last.prev.pre.is_dirty_
  /\ last.prev.pre.name_ = last.pre.name_
  /\ NetOutput.node = assigned[last.pre.name_]

\* the last call was an evaluate() of a Dirty node with inputs whose name is
\* registered to another node
Delegated ==
  /\ EvaluateReturned
  /\ last.pre.is_dirty_
  /\ last.pre.inputs_ # <<>>
  /\ aliased(last.pre, Receiver, named_scalars_)

\* C8 as claimed: a delegating evaluate() returns exactly what the other
\* node's evaluate() returns.
C8_ReturnsOtherNodesEvaluate ==
  Delegated => last.ret = NextEvaluate(named_scalars_[last.pre.name_]).ret

\* C8 amended: a delegating evaluate() takes the network output from the
\* node the names lead to, computed with that node's network, and combines it
\* with the delegating node's own value and is_residual flag.
C8_SharesNetworkKeepsValue ==
  Delegated
  => /\ last.calls # <<>>
     /\ NetOutput.node = FollowNames(named_scalars_, Receiver, NumNodes)
     /\ NetOutput.node # Receiver
     /\ NetOutput.net = nodes[NetOutput.node].net_
     /\ last.ret = (IF last.pre.is_residual THEN last.pre.value_ + NetOutput.output
                    ELSE NetOutput.output)

\* a residual node delegated: the result is its own value plus the other
\* node's network output, and differs from what the other node evaluates to
C8_Witness ==
  /\ Delegated
  /\ last.pre.is_residual
  /\ last.pre.value_ > 0
  /\ NetOutput.node = named_scalars_[last.pre.name_]
  /\ NetOutput.output > 0
  /\ last.ret = last.pre.value_ + NetOutput.output
  /\ last.ret # NextEvaluate(named_scalars_[last.pre.name_]).ret

\* C9 as claimed: a delegating evaluate() leaves the node's cache and dirty
\* flag as they were.
C9_DelegationLeavesCacheAndDirty ==
  Delegated
  => /\ nodes[Receiver].cache_ = last.pre.cache_
     /\ nodes[Receiver].is_dirty_

\* C9 amended: a delegating evaluate() stores its result in the node's cache
\* and leaves the node Clean, so the next evaluate() returns that cache
\* without a compute.
C9_DelegationIsMemoized ==
  Delegated
  => /\ nodes[Receiver].cache_ = last.ret
     /\ ~nodes[Receiver].is_dirty_
     /\ NextEvaluate(Receiver).ret = last.ret
     /\ NextEvaluate(Receiver).es.calls = <<>>

\* a node delegated and its cache changed to the result
C9_Witness ==
  /\ Delegated
  /\ last.pre.cache_ # last.ret
  /\ nodes[Receiver].cache_ = last.ret
  /\ ~nodes[Receiver].is_dirty_

\* C10: retrieve(name) is the node of the latest assign(name) that returned,
\* for every name (so an assign leaves the entries of all other names alone),
\* and that is what the last retrieve returned.
C10_LastAssignWins ==
  /\ \A name \in Names : retrieve(named_scalars_, name) = assigned[name]
  /\ (last.call.op = "retrieve") => last.ret = assigned[last.call.name]

\* retrieve returned the later of two nodes that were assigned a name with a
\* blueprint, while another name still leads to its node
C10_Witness ==
  /\ last.call.op = "retrieve"
  /\ last.ret # NULL
  /\ blueprints_[last.call.name].present
  /\ nodes[last.ret].inputs_ # <<>>
  /\ \E a \in Nodes : a # last.ret /\ nodes[a].name_ = last.call.name
  /\ \E s \in Names : s # last.call.name /\ named_scalars_[s] \notin {NULL, last.ret}

\* the last call was an assign(name) that found a blueprint under name and
\* returned
BlueprintApplied ==
  /\ last.call.op = "assign"
  /\ Returned
  /\ last.was.bps[last.call.name].present

\* the nodes that registry reg holds under the input names of blueprint bp
Resolved(bp, reg) == [i \in 1..Len(bp.input_names) |-> reg[bp.input_names[i]]]

\* C11: after an assign(name) that applies a blueprint, the node's inputs are
\* exactly the nodes registered under the blueprint's input names at the
\* call, in the blueprint's order (inputs the node had before are gone), and
\* the node's network is the blueprint's network.
C11_BlueprintOverwritesInputs ==
  BlueprintApplied
  => LET bp == last.was.bps[last.call.name] IN
     /\ nodes[Receiver].inputs_ = Resolved(bp, last.was.named)
     /\ nodes[Receiver].net_ = bp.net

\* the last call was an assign(name) that found a blueprint under name
AssignedWithBlueprint == last.call.op = "assign" /\ last.was.bps[last.call.name].present
\* an input name of blueprint bp has no node in registry reg
Unresolved(bp, reg) == \E i \in 1..Len(bp.input_names) : reg[bp.input_names[i]] = NULL

\* C12: add_blueprint always returns and stores the blueprint, whether or not
\* its input names are registered.  An assign(name) that finds a blueprint
\* with an input name that has no registered node ends the process with the
\* assertion failure and leaves the Name Registry as it was; if all input
\* names are registered it returns, registers the node, and a node that had
\* no inputs has exactly the registered nodes as inputs, the first input
\* being the node of the first input name.
C12_BlueprintResolutionIsStrict ==
  /\ last.call.op = "add_blueprint"
     => /\ Returned
        /\ ~halted
        /\ blueprints_[last.call.name] =
             [input_names |-> last.call.ins,
              net |-> [layers |-> last.call.layers, w |-> last.call.w], present |-> TRUE]
  /\ AssignedWithBlueprint
     => LET bp == last.was.bps[last.call.name] IN
        IF Unresolved(bp, last.was.named)
        THEN /\ last.status = "assert"
             /\ halted
             /\ named_scalars_ = last.was.named
        ELSE /\ Returned
             /\ ~halted
             /\ named_scalars_[last.call.name] = Receiver
             /\ last.pre.inputs_ = <<>>
                => nodes[Receiver].inputs_ = Resolved(bp, last.was.named)

\* a blueprint for y with input x was added, and the assign of a node to y,
\* made while x was not registered, ended the process without registering
\* the node
C12_Witness ==
  /\ AssignedWithBlueprint
  /\ last.prev.call.op = "add_blueprint"
  /\ last.prev.call.name = last.call.name
  /\ last.prev.call.ins # <<>>
  /\ last.was.named = [s \in Names |-> NULL]
  /\ last.status = "assert"
  /\ halted
  /\ named_scalars_[last.call.name] = NULL

\* the same assign, made after x was registered, wired the new node's first
\* input to the node registered as x
C12_ResolvedAfterRegistration ==
  /\ AssignedWithBlueprint
  /\ Returned
  /\ last.prev.call.op = "assign"
  /\ last.was.bps[last.call.name].input_names = <<last.prev.call.name>>
  /\ last.pre.inputs_ = <<>>
  /\ nodes[Receiver].inputs_[1] = last.prev.call.n
  /\ named_scalars_[last.call.name] = Receiver

\* C13: retrieve(name) returns; for a name that no assign ever registered it
\* returns null; and it leaves the Name Registry (no entry appears for the
\* name), the Blueprint Registry and every node as they were.
C13_RetrieveIsTotalAndPure ==
  last.call.op = "retrieve"
  => /\ Returned
     /\ ~halted
     /\ assigned[last.call.name] = NULL => last.ret = NULL
     /\ named_scalars_ = last.was.named
     /\ blueprints_ = last.was.bps
     /\ nodes = last.was.nodes

\* retrieve of a name nobody holds returned null while another name has its
\* node, and the name is still without an entry
C13_Witness ==
  /\ last.call.op = "retrieve"
  /\ Returned
  /\ last.ret = NULL
  /\ assigned[last.call.name] = NULL
  /\ \E s \in Names : named_scalars_[s] # NULL
  /\ named_scalars_[last.call.name] = NULL

\* what evaluate() of the object that the latest operator returned would do
\* in this state: the object is one more node, after the others
MadeEvaluate ==
  evaluate([EvalState EXCEPT !.nodes = Append(nodes, made.node)], NumNodes + 1, Crash)
\* the last call was an arithmetic operator, and it returned
OperatorReturned == last.call.op \in BinaryOps \cup {"neg"} /\ Returned

\* C14: the object a binary operator or the negation returned has no name and
\* no inputs, and in every later state, whatever was done to the operands
\* since, its evaluate() returns, without a compute, the operator applied to
\* what the operands' evaluate() returned in the operation; right after the
\* operation that is what evaluate() of the operands returns.
C14_OperatorsCollapseToValue ==
  /\ made.op # "none"
     => /\ made.node.name_ = NoName
        /\ made.node.inputs_ = <<>>
        /\ MadeEvaluate.es.status = "ok"
        /\ MadeEvaluate.es.calls = <<>>
        /\ MadeEvaluate.ret = (IF made.op = "neg" THEN 0 - made.r
                               ELSE ApplyBinary(made.l, made.op, made.r))
  /\ OperatorReturned
     => /\ made.op = last.call.op
        /\ made.rhs = (IF made.op = "neg" THEN last.call.n ELSE last.call.arg)
        /\ made.r = NextEvaluate(made.rhs).ret
        /\ made.op # "neg"
           => /\ made.lhs = last.call.n
              /\ made.l = NextEvaluate(made.lhs).ret
        /\ last.ret = MadeEvaluate.ret

\* the difference of two nodes with inputs was taken and the left operand
\* then assigned a value: the operand evaluates to something else now, the
\* difference still to what it was
C14_Witness ==
  /\ made.op = "-"
  /\ last.call.op \in ValueAssignments
  /\ Returned
  /\ Receiver = made.lhs
  /\ nodes[made.lhs].inputs_ # <<>>
  /\ nodes[made.rhs].inputs_ # <<>>
  /\ NextEvaluate(made.lhs).es.status = "ok"
  /\ NextEvaluate(made.lhs).ret # made.l
  /\ MadeEvaluate.ret = made.l - made.r
  /\ MadeEvaluate.ret # 0

DirectAssignments == {"assign_node", "assign_scalar", "assign_double"}

\* C15: a direct assignment that returns sets the target's value to what the
\* source's evaluate() returned in it (which is what the source evaluates to
\* afterwards), or to the scalar, and leaves the target's inputs, network,
\* name and is_residual and both registries as they were.
C15_AssignmentCopiesValueOnly ==
  (last.call.op \in DirectAssignments /\ Returned)
  => LET nd == nodes[Receiver] IN
     /\ nd.value_ = (CASE last.call.op = "assign_node" -> last.ret
                       [] last.call.op = "assign_scalar" -> last.call.arg
                       [] last.call.op = "assign_double" -> ScalarOfDouble(last.call.arg))
     /\ (last.call.op = "assign_node" /\ last.call.arg # Receiver)
        => nd.value_ = NextEvaluate(last.call.arg).ret
     /\ nd.inputs_ = last.pre.inputs_
     /\ nd.net_ = last.pre.net_
     /\ nd.name_ = last.pre.name_
     /\ nd.is_residual = last.pre.is_residual
     /\ named_scalars_ = last.was.named
     /\ blueprints_ = last.was.bps

\* a plain node was assigned from a named node with inputs and a network of
\* its own: its value changed to the source's result, its wiring did not
C15_Witness ==
  /\ last.call.op = "assign_node"
  /\ Returned
  /\ last.call.arg # Receiver
  /\ nodes[last.call.arg].inputs_ # <<>>
  /\ nodes[last.call.arg].name_ # NoName
  /\ nodes[last.call.arg].net_ # DefaultNet
  /\ last.calls # <<>>
  /\ nodes[Receiver].value_ # last.pre.value_
  /\ nodes[Receiver].value_ = nodes[last.call.arg].cache_
  /\ nodes[Receiver].inputs_ = <<>>
  /\ nodes[Receiver].name_ = NoName
  /\ nodes[Receiver].net_ = DefaultNet

\* C16: a compound assignment a op= b that returns sets a's value to a's
\* value before the call, op, what b.evaluate() returned in the call (not to
\* a's cache op that), and leaves a's inputs and network as they were; also
\* when b is a itself.
C16_CompoundUsesStoredValue ==
  (last.call.op \in CompoundOps /\ Returned)
  => LET nd == nodes[Receiver] IN
     /\ nd.value_ = Apply(last.pre.value_, last.call.op, last.ret)
     /\ last.call.arg # Receiver => last.ret = NextEvaluate(last.call.arg).ret
     /\ last.call.arg = Receiver => last.ret = nd.cache_
     /\ nd.inputs_ = last.pre.inputs_
     /\ nd.net_ = last.pre.net_

\* a -= a on a node with inputs whose evaluation result is not its value:
\* the new value is the old value minus the result, not the result minus
\* itself
C16_Witness ==
  /\ last.call.op = "-="
  /\ Returned
  /\ last.call.arg = Receiver
  /\ last.pre.inputs_ # <<>>
  /\ last.calls # <<>>
  /\ last.ret # last.pre.value_
  /\ nodes[Receiver].value_ = last.pre.value_ - last.ret
  /\ nodes[Receiver].value_ # 0
  /\ nodes[Receiver].inputs_ = last.pre.inputs_

\* the nodes reached from the nodes of S by one or more edges of E, k rounds
RECURSIVE After(_, _, _)
After(E, S, k) ==
  IF k = 0 THEN {}
  ELSE LET T == UNION {E[m] : m \in S} IN T \cup After(E, T, k - 1)
\* a cycle of E is reached from n
ReachesCycle(E, n) == \E c \in After(E, {n}, NumNodes) \cup {n} : c \in After(E, {c}, NumNodes)

\* the input edges of the nodes nds
InputEdges(nds) ==
  [n \in Nodes |-> {nds[n].inputs_[i] : i \in DOMAIN nds[n].inputs_} \ {NULL}]

RECURSIVE NetworkOf(_, _, _, _)
NetworkOf(nds, reg, n, k) ==
  IF k = 0 \/ nds[n].name_ = NoName \/ reg[nds[n].name_] = n THEN n
  ELSE NetworkOf(nds, reg, reg[nds[n].name_], k - 1)
\* evaluate() of node n of nds goes on to its network
Recomputes(nds, n) == nds[n].is_dirty_ /\ nds[n].inputs_ # <<>>
\* the nested evaluate() calls of an evaluate() of n that go on to a network:
\* the inputs of the node that computes for n that are Dirty with inputs
NestedEdges(nds, reg) ==
  [n \in Nodes |->
     IF Recomputes(nds, n)
     THEN {m \in InputEdges(nds)[NetworkOf(nds, reg, n, NumNodes)] : Recomputes(nds, m)}
     ELSE {}]
Unbounded(nds, reg, n) == ReachesCycle(NestedEdges(nds, reg), n)

C17_CleanOnCycleReturns ==
  /\ EvaluateReturned
  /\ Receiver \in InputEdges(last.was.nodes)[Receiver]
  /\ ~last.pre.is_dirty_
  /\ last.ret = last.pre.cache_

\* evaluate() of a node did not return although the input edges have no
\* cycle: its name leads to a node that has it as an input
C17_AcyclicNeverReturns ==
  /\ last.call.op = "evaluate"
  /\ last.status = "overflow"
  /\ ~ReachesCycle(InputEdges(last.was.nodes), Receiver)

\* the operations on a node that C18 names
OnNode == ValueAssignments \cup {"connect", "assign"}
\* the operations among them that evaluate a source node
FromNode == {"assign_node"} \cup CompoundOps

\* C18 as claimed: no operation on a node changes the dirty flag or the cache
\* of any other node.
C18_OtherNodesUntouched ==
  last.call.op \in OnNode
  => \A m \in Nodes \ {Receiver} :
       /\ nodes[m].is_dirty_ = last.was.nodes[m].is_dirty_
       /\ nodes[m].cache_ = last.was.nodes[m].cache_

\* C18 amended: no operation on a node N makes another node Dirty or changes
\* the cache of a node that was Clean.  An assignment from a scalar, connect
\* and assign leave every other node as it was; an assignment or compound
\* assignment from a node changes other nodes only in that the evaluation of
\* the source turns Dirty nodes Clean.  A node that was Clean returns its
\* cache on its next evaluate(), without a compute, also when it lists N.
C18_InvalidationStaysLocal ==
  last.call.op \in OnNode
  => \A m \in Nodes \ {Receiver} :
       LET old == last.was.nodes[m]
           new == nodes[m]
       IN /\ new.is_dirty_ => (old.is_dirty_ /\ new = old)
          /\ ~old.is_dirty_ => new = old
          /\ new = [old EXCEPT !.is_dirty_ = new.is_dirty_, !.cache_ = new.cache_]
          /\ last.call.op \notin FromNode => new = old
          /\ ~old.is_dirty_
             => /\ NextEvaluate(m).es.status = "ok"
                /\ NextEvaluate(m).ret = old.cache_
                /\ NextEvaluate(m).es.calls = <<>>

\* what evaluate() of node m would return if m were Dirty
Recomputed(m) == evaluate([EvalState EXCEPT !.nodes[m].is_dirty_ = TRUE], m, Crash)

\* the value of an input of a Clean node was changed by an assignment: the
\* Clean node still returns its cache, which is no longer what a
\* recomputation gives
C18_Witness ==
  /\ last.call.op \in ValueAssignments
  /\ Returned
  /\ nodes[Receiver].value_ # last.pre.value_
  /\ \E m \in Nodes \ {Receiver} :
       /\ Receiver \in InputEdges(nodes)[m]
       /\ ~last.was.nodes[m].is_dirty_
       /\ ~nodes[m].is_dirty_
       /\ NextEvaluate(m).ret = last.was.nodes[m].cache_
       /\ Recomputed(m).es.status = "ok"
       /\ Recomputed(m).ret # NextEvaluate(m).ret

\* C19: assign(name) leaves the receiver's dirty flag, cache and value as they
\* were, also when it applies a blueprint; a receiver that was Clean is Clean
\* after an assign that returns, and its next evaluate() returns the cache it
\* had, without a compute.
C19_AssignKeepsCacheAndFlag ==
  last.call.op = "assign"
  => /\ nodes[Receiver].is_dirty_ = last.pre.is_dirty_
     /\ nodes[Receiver].cache_ = last.pre.cache_
     /\ nodes[Receiver].value_ = last.pre.value_
     /\ (Returned /\ ~last.pre.is_dirty_)
        => /\ NextEvaluate(Receiver).es.status = "ok"
           /\ NextEvaluate(Receiver).ret = last.pre.cache_
           /\ NextEvaluate(Receiver).es.calls = <<>>

\* a Clean node without inputs got an input and a network from a blueprint:
\* it is still Clean and returns the old cache, not what its new network
\* would give
C19_Witness ==
  /\ BlueprintApplied
  /\ ~last.pre.is_dirty_
  /\ last.pre.inputs_ = <<>>
  /\ nodes[Receiver].inputs_ # <<>>
  /\ nodes[Receiver].net_ # last.pre.net_
  /\ ~nodes[Receiver].is_dirty_
  /\ NextEvaluate(Receiver).ret = last.pre.cache_
  /\ Recomputed(Receiver).es.status = "ok"
  /\ Recomputed(Receiver).ret # last.pre.cache_

\* following the registry from node n leads, within k further moves, to a
\* node that is registered under its own name, and no entry on the way is
\* missing
RECURSIVE Settles(_, _)
Settles(n, k) ==
  /\ n # NULL
  /\ nodes[n].name_ # NoName
  /\ \/ named_scalars_[nodes[n].name_] = n
     \/ k > 0 /\ Settles(named_scalars_[nodes[n].name_], k - 1)

\* C20: while the process runs, every node with a name has a node in the
\* Name Registry under that name, and following the registry from it reaches
\* a node registered under its own name after at most one move per other
\* node: alias delegation finds every entry and does not loop.
C20_DelegationIsWellFounded ==
  ~halted
  => \A n \in Nodes :
       nodes[n].name_ # NoName
       => /\ named_scalars_[nodes[n].name_] # NULL
          /\ Settles(n, NumNodes - 1)

\* a chain of two moves: a node whose name leads to a second node, whose
\* present name leads to a third, which the last assign registered
C20_Witness ==
  /\ last.call.op = "assign"
  /\ Returned
  /\ \E a, b \in Nodes \ {Receiver} :
       /\ a # b
       /\ nodes[a].name_ # NoName
       /\ named_scalars_[nodes[a].name_] = b
       /\ nodes[b].name_ = last.call.name
       /\ nodes[b].name_ # nodes[a].name_
       /\ named_scalars_[nodes[b].name_] = Receiver
       /\ Settles(a, 2)
       /\ ~Settles(a, 1)
====
